---- MODULE Spec2Model ----
(***************************************************************************)
(* Space Echo tape delay (src/src/dsp/spacecho.c): the V2 instance API     *)
(* (create, destroy, process_block, set_param, get_param) with its         *)
(* SmoothedValue, DelayLine, OnePoleFilter and SoftSaturate components.    *)
(*                                                                         *)
(* Numbers.  A C float is carried as an integer count of millionths        *)
(* (ONE = 1.0), or as one of three values outside every finite value of    *)
(* the model: NaN, PosInf, NegInf.  Arithmetic truncates toward zero.      *)
(* Sample positions inside DelayLine_Read (up to 88200.0) are carried in   *)
(* ten-thousandths of a sample (POS = one sample), frequencies in          *)
(* thousandths of a hertz.  A C string is a sequence of one-character      *)
(* strings, so that atof and "%.2f" are computed, not assumed.             *)
(* An array obtained from calloc is a function from the slots that hold a  *)
(* non-zero value to that value; every other slot holds 0.0f.              *)
(***************************************************************************)
EXTENDS Integers, Sequences, FiniteSets, TLC

(* ------------------------------------------------------------------ *)
(* Program constants                                                    *)
(* ------------------------------------------------------------------ *)
SAMPLE_RATE == 44100
MAX_DELAY_SECONDS == 2
MAX_CHANNELS == 2
RAMP_SAMPLES == 2205

(* ------------------------------------------------------------------ *)
(* float                                                                *)
(* ------------------------------------------------------------------ *)
ONE == 1000 * 1000
POS == 100 * 100
PosInf == 2000 * ONE
NegInf == 0 - PosInf
NaN == PosInf + 1

IsNaN(x) == x = NaN
IsFinite(x) == x > NegInf /\ x < PosInf

Abs(x) == IF x < 0 THEN 0 - x ELSE x
Sgn(x) == IF x < 0 THEN 0 - 1 ELSE 1
Min(a, b) == IF a < b THEN a ELSE b
Max(a, b) == IF a > b THEN a ELSE b

\* a < b, a > b, a <= b on floats: every comparison with NaN is false
FLt(a, b) == ~IsNaN(a) /\ ~IsNaN(b) /\ a < b
FGt(a, b) == ~IsNaN(a) /\ ~IsNaN(b) /\ a > b
FLe(a, b) == ~IsNaN(a) /\ ~IsNaN(b) /\ a <= b

FAdd(a, b) == IF IsNaN(a) \/ IsNaN(b) THEN NaN ELSE a + b
FSub(a, b) == IF IsNaN(a) \/ IsNaN(b) THEN NaN ELSE a - b

\* |a| * |b| / ONE by parts of three decimal digits, so that no
\* intermediate product leaves the 32-bit integers
MulMag(a, b) ==
    LET a1 == a \div 1000
        a0 == a % 1000
        b1 == b \div 1000
        b0 == b % 1000
    IN  a1 * b1 + ((a1 * b0 + a0 * b1) + ((a0 * b0) \div 1000)) \div 1000

FMul(a, b) ==
    IF IsNaN(a) \/ IsNaN(b) THEN NaN
    ELSE (Sgn(a) * Sgn(b)) * MulMag(Abs(a), Abs(b))

\* |a| * ONE / |b| by long division, two decimal digits at a time
DivMag(a, b) ==
    LET q0 == a \div b
        r0 == a % b
        q1 == (r0 * 100) \div b
        r1 == (r0 * 100) % b
        q2 == (r1 * 100) \div b
        r2 == (r1 * 100) % b
        q3 == (r2 * 100) \div b
    IN  ((q0 * 100 + q1) * 100 + q2) * 100 + q3

FDiv(a, b) ==
    IF IsNaN(a) \/ IsNaN(b) THEN NaN
    ELSE (Sgn(a) * Sgn(b)) * DivMag(Abs(a), Abs(b))

\* a / (float)n for an int n > 0
FDivInt(a, n) == IF IsNaN(a) THEN NaN ELSE Sgn(a) * (Abs(a) \div n)

(* ------------------------------------------------------------------ *)
(* libm: expf, powf, tanhf by linear interpolation in a table           *)
(* ------------------------------------------------------------------ *)
\* exp(-2.0), exp(-1.75), ..., exp(3.25) in millionths
ExpTable ==
    << 135335, 173774, 223130, 286505, 367879, 472367, 606531, 778801,
       1000000, 1284025, 1648721, 2117000, 2718282, 3490343, 4481689,
       5754603, 7389056, 9487736, 12182494, 15642632, 20085537, 25790340 >>

\* table[k] + (table[k+1] - table[k]) * (x - knot k) / width
Interp(table, lo, width, x) ==
    LET n  == Len(table)
        xc == Max(lo, Min(x, lo + (n - 1) * width))
        k  == Min((xc - lo) \div width, n - 2)
        t  == xc - (lo + k * width)
        y0 == table[k + 1]
        y1 == table[k + 2]
    IN  y0 + Sgn(y1 - y0) * MulMag(Abs(y1 - y0), DivMag(t, width))

Expf(x) == IF IsNaN(x) THEN NaN ELSE Interp(ExpTable, 0 - 2 * ONE, 250000, x)

\* powf(24.0f, y) = exp(y * ln 24), ln 24 = 3.178054
Powf24(y) == Expf(FMul(y, 3178054))

\* tanh(0), tanh(0.25), ..., tanh(5.0) in millionths
TanhTable ==
    << 0, 244919, 462117, 635149, 761594, 848284, 905148, 941376, 964028,
       978026, 986614, 991862, 995055, 996993, 998178, 998894, 999329,
       999593, 999753, 999850, 999909 >>

Tanhf(x) ==
    IF IsNaN(x) THEN NaN
    ELSE Sgn(x) * Interp(TanhTable, 0, 250000, Min(Abs(x), 5 * ONE))

(* ------------------------------------------------------------------ *)
(* C strings: atof and snprintf("%.2f")                                 *)
(* ------------------------------------------------------------------ *)
Digits == << "0", "1", "2", "3", "4", "5", "6", "7", "8", "9" >>
IsDigit(c) == \E d \in 1..10 : Digits[d] = c
DigitVal(c) == (CHOOSE d \in 1..10 : Digits[d] = c) - 1
DigitChar(d) == Digits[d + 1]

\* the run of digits of s from position i on: its value and where it ends.
\* A value of 2000 or more stays there: it is far above every clamp.
RECURSIVE IntPart(_, _, _)
IntPart(s, i, acc) ==
    IF i > Len(s) \/ ~IsDigit(s[i]) THEN [v |-> acc, i |-> i]
    ELSE IntPart(s, i + 1, Min(acc * 10 + DigitVal(s[i]), 2000))

\* the digits after the point, the first worth w millionths
RECURSIVE FracPart(_, _, _, _)
FracPart(s, i, w, acc) ==
    IF i > Len(s) \/ ~IsDigit(s[i]) THEN acc
    ELSE FracPart(s, i + 1, w \div 10, acc + DigitVal(s[i]) * w)

HasAt(s, i, word) ==
    /\ i + Len(word) - 1 <= Len(s)
    /\ \A k \in 1..Len(word) : s[i + k - 1] = word[k]

\* (float)atof(val): sign, "nan", "inf", digits, '.', digits; anything
\* else ends the number, and no digits at all give 0.0
Atof(s) ==
    LET neg   == Len(s) >= 1 /\ s[1] = "-"
        start == IF Len(s) >= 1 /\ s[1] \in {"-", "+"} THEN 2 ELSE 1
        ip    == IntPart(s, start, 0)
        fr    == IF ip.i <= Len(s) /\ s[ip.i] = "."
                 THEN FracPart(s, ip.i + 1, ONE \div 10, 0) ELSE 0
        mag   == IF ip.v >= 2000 THEN PosInf ELSE ip.v * ONE + fr
    IN  IF HasAt(s, start, << "n", "a", "n" >>) THEN NaN
        ELSE IF HasAt(s, start, << "i", "n", "f" >>)
             THEN (IF neg THEN NegInf ELSE PosInf)
        ELSE IF neg THEN 0 - mag ELSE mag

RECURSIVE IntDigits(_)
IntDigits(n) ==
    IF n < 10 THEN << DigitChar(n) >>
    ELSE Append(IntDigits(n \div 10), DigitChar(n % 10))

\* the text "%.2f" prints for x
Fmt2f(x) ==
    IF IsNaN(x) THEN << "n", "a", "n" >>
    ELSE LET c == (Abs(x) + 5000) \div 10000
         IN  (IF x < 0 /\ c > 0 THEN << "-" >> ELSE << >>)
             \o IntDigits(c \div 100)
             \o << ".", DigitChar((c % 100) \div 10), DigitChar(c % 10) >>

\* snprintf(buf, buf_len, ...): all of the text is counted, buf_len - 1
\* characters of it are stored
Snprintf(text, buf_len) ==
    [ret |-> Len(text),
     buf |-> IF buf_len <= 0 THEN << >>
             ELSE SubSeq(text, 1, Min(Len(text), buf_len - 1))]

(* ------------------------------------------------------------------ *)
(* SmoothedValue                                                        *)
(* ------------------------------------------------------------------ *)
SmoothedValue_Init(initialValue) ==
    [currentValue   |-> initialValue,
     targetValue    |-> initialValue,
     step           |-> 0,
     stepsRemaining |-> 0]

\* SetTarget as it would be if a ramp under way kept its step
SmoothedValue_SetTargetKeep(sv, newTarget, rampSamples) ==
    IF rampSamples > 0
    THEN [sv EXCEPT
            !.targetValue    = newTarget,
            !.step           = IF sv.stepsRemaining > 0 THEN sv.step
                               ELSE FDivInt(FSub(newTarget, sv.currentValue),
                                            rampSamples),
            !.stepsRemaining = rampSamples]
    ELSE [sv EXCEPT
            !.targetValue    = newTarget,
            !.currentValue   = newTarget,
            !.step           = 0,
            !.stepsRemaining = 0]

SmoothedValue_SetTarget(sv, newTarget, rampSamples) ==
    IF rampSamples > 0
    THEN [sv EXCEPT
            !.targetValue    = newTarget,
            !.step           = FDivInt(FSub(newTarget, sv.currentValue),
                                       rampSamples),
            !.stepsRemaining = rampSamples]
    ELSE [sv EXCEPT
            !.targetValue    = newTarget,
            !.currentValue   = newTarget,
            !.step           = 0,
            !.stepsRemaining = 0]

\* GetNext as it would be without "currentValue = targetValue" at the
\* end of the ramp
SmoothedValue_GetNextDrift(sv) ==
    IF sv.stepsRemaining > 0
    THEN [sv EXCEPT
            !.currentValue   = FAdd(sv.currentValue, sv.step),
            !.stepsRemaining = sv.stepsRemaining - 1]
    ELSE sv

\* the smoother after the call; the value returned is its currentValue
SmoothedValue_GetNext(sv) ==
    IF sv.stepsRemaining > 0
    THEN [sv EXCEPT
            !.currentValue   = IF sv.stepsRemaining - 1 = 0
                               THEN sv.targetValue
                               ELSE FAdd(sv.currentValue, sv.step),
            !.stepsRemaining = sv.stepsRemaining - 1]
    ELSE sv

(* ------------------------------------------------------------------ *)
(* DelayLine                                                            *)
(* ------------------------------------------------------------------ *)
\* a zeroed array
Zeroed == [i \in {} |-> 0]

Slot(data, i) == IF i \in DOMAIN data THEN data[i] ELSE 0

Store(data, i, x) ==
    IF x = 0
    THEN (IF i \in DOMAIN data
          THEN [j \in DOMAIN data \ {i} |-> data[j]]
          ELSE data)
    ELSE (i :> x) @@ data

\* allocated: whether calloc returned the buffer
DelayLine_Init(sampleRate, allocated) ==
    [buffer        |-> IF allocated THEN "ptr" ELSE "null",
     data          |-> Zeroed,
     bufferLength  |-> MAX_DELAY_SECONDS * sampleRate,
     writePosition |-> 0,
     sampleRate    |-> sampleRate]

DelayLine_Free(dl) ==
    IF dl.buffer # "null" THEN [dl EXCEPT !.buffer = "null"] ELSE dl

\* DelayLine_Write as it would be without the wrap of writePosition
DelayLine_WriteNoWrap(dl, sample) ==
    [dl EXCEPT
       !.data          = Store(dl.data, dl.writePosition, sample),
       !.writePosition = dl.writePosition + 1]

DelayLine_Write(dl, sample) ==
    [dl EXCEPT
       !.data          = Store(dl.data, dl.writePosition, sample),
       !.writePosition = IF dl.writePosition + 1 >= dl.bufferLength
                         THEN 0 ELSE dl.writePosition + 1]

\* the clamp as it would be without "if (delaySamples < 1.0f)"
ClampDelayNoFloor(dl, delayTimeSeconds) ==
    LET raw == IF IsNaN(delayTimeSeconds) THEN NaN
               ELSE delayTimeSeconds * (dl.sampleRate \div (ONE \div POS))
    IN  IF FGt(raw, (dl.bufferLength - 1) * POS)
        THEN (dl.bufferLength - 1) * POS ELSE raw

\* delaySamples after the clamp, in POS units per sample
ClampDelaySamples(dl, delayTimeSeconds) ==
    LET raw == IF IsNaN(delayTimeSeconds) THEN NaN
               ELSE delayTimeSeconds * (dl.sampleRate \div (ONE \div POS))
        lo  == IF FLt(raw, 1 * POS) THEN 1 * POS ELSE raw
    IN  IF FGt(lo, (dl.bufferLength - 1) * POS)
        THEN (dl.bufferLength - 1) * POS ELSE lo

\* how many float values lie between two whole numbers at the size of
\* samples: a float carries 24 significant bits, so from 65536 up they
\* are 1/128 apart; 0 where they are closer than the model's POS units
F32Den(samples) ==
    IF samples >= 65536 THEN 128
    ELSE IF samples >= 32768 THEN 256
    ELSE IF samples >= 16384 THEN 512
    ELSE IF samples >= 8192 THEN 1024
    ELSE IF samples >= 4096 THEN 2048
    ELSE IF samples >= 2048 THEN 4096
    ELSE IF samples >= 1024 THEN 8192
    ELSE 0

\* the float nearest to a position x >= 0 given in POS units
RoundMagF32(x) ==
    LET whole == x \div POS
        den   == F32Den(whole)
        r     == ((x % POS) * den + POS \div 2) \div POS
    IN  IF den = 0 THEN x
        ELSE whole * POS + (r * POS + den \div 2) \div den

\* the float a position is stored as
RoundF32(x) ==
    IF ~IsFinite(x) THEN x
    ELSE IF x < 0 THEN 0 - RoundMagF32(0 - x)
    ELSE RoundMagF32(x)

\* readPos += dl->bufferLength, applied to a negative readPos
WrapReadPos(dl, readPos) ==
    IF FLt(readPos, 0) THEN RoundF32(FAdd(readPos, dl.bufferLength * POS))
    ELSE readPos

\* readPos after the wrap, in POS units per sample
ReadPos(dl, delayTimeSeconds) ==
    WrapReadPos(dl, RoundF32(FSub(dl.writePosition * POS,
                                  ClampDelaySamples(dl, delayTimeSeconds))))

\* index0 = (int)floorf(readPos); the conversion of a NaN is undefined
\* and yields ubInt
ReadIndex0(readPos, ubInt) ==
    IF IsNaN(readPos) THEN ubInt ELSE readPos \div POS

\* (a + 1) % n of C, whose sign is that of a + 1
ReadIndex1(index0, bufferLength) ==
    IF index0 + 1 >= 0 THEN (index0 + 1) % bufferLength
    ELSE 0 - ((0 - (index0 + 1)) % bufferLength)

\* fraction = readPos - floorf(readPos)
ReadFraction(readPos) ==
    IF IsNaN(readPos) THEN NaN
    ELSE (readPos - (readPos \div POS) * POS) * (ONE \div POS)

InBuffer(dl, i) == i >= 0 /\ i < dl.bufferLength

\* dl->buffer[i]; a load outside the buffer is undefined: it faults
\* (ubLoad = << >>) or yields whatever lies there (ubLoad = << x >>)
Loaded(dl, i, ubLoad) ==
    IF InBuffer(dl, i) \/ ubLoad = << >> THEN Slot(dl.data, i) ELSE ubLoad[1]

\* sample0 + fraction * (sample1 - sample0), or the fault the reads raise
Interpolate(dl, index0, index1, fraction, ubLoad) ==
    IF dl.buffer = "null"
    THEN [value |-> 0, fault |-> "null_deref"]
    ELSE IF (~InBuffer(dl, index0) \/ ~InBuffer(dl, index1))
            /\ ubLoad = << >>
    THEN [value |-> 0, fault |-> "out_of_bounds"]
    ELSE [value |-> FAdd(Loaded(dl, index0, ubLoad),
                         FMul(fraction, FSub(Loaded(dl, index1, ubLoad),
                                             Loaded(dl, index0, ubLoad)))),
          fault |-> "none"]

ReadAt(dl, readPos, index0, ubLoad) ==
    Interpolate(dl, index0, ReadIndex1(index0, dl.bufferLength),
                ReadFraction(readPos), ubLoad)

ReadFrom(dl, readPos, ub) ==
    ReadAt(dl, readPos, ReadIndex0(readPos, ub.int), ub.load)

\* [value, fault]: the interpolated sample, or the fault the read raises;
\* ub.int and ub.load: what the undefined conversion and load yield
DelayLine_Read(dl, delayTimeSeconds, ub) ==
    ReadFrom(dl, ReadPos(dl, delayTimeSeconds), ub)

(* ------------------------------------------------------------------ *)
(* OnePoleFilter                                                        *)
(* ------------------------------------------------------------------ *)
OnePoleFilter_Init == [z1 |-> 0, a0 |-> ONE, b1 |-> 0]

\* cutoffHz in thousandths of a hertz
OnePoleFilter_SetCutoff(f, cutoffHz, sampleRate) ==
    LET ratio == IF IsNaN(cutoffHz) THEN NaN
                 ELSE (cutoffHz * 10) \div (sampleRate \div 100)
        w     == FMul(FMul(2 * ONE, 3141593), ratio)
        b1    == Expf(FSub(0, w))
    IN  [f EXCEPT !.b1 = b1, !.a0 = FSub(ONE, b1)]

\* the filter after the call; the value returned is its z1
OnePoleFilter_Process(f, input) ==
    [f EXCEPT !.z1 = FAdd(FMul(input, f.a0), FMul(f.z1, f.b1))]

(* ------------------------------------------------------------------ *)
(* SoftSaturate and the parameter curves                                *)
(* ------------------------------------------------------------------ *)
SoftSaturate(x, amount) ==
    IF FLe(amount, 0) THEN x
    ELSE LET drive == FAdd(ONE, FMul(amount, 3 * ONE))
         IN  FDiv(Tanhf(FMul(x, drive)), drive)

GetDelayTimeSeconds(normalized) ==
    FAdd(20000, FMul(FMul(normalized, normalized), 1980000))

GetFeedback(normalized) == FMul(normalized, 950000)

\* in thousandths of a hertz
GetToneFrequency(normalized) ==
    IF IsNaN(normalized) THEN NaN
    ELSE (500 * (Powf24(normalized) \div 10)) \div 100

(* ------------------------------------------------------------------ *)
(* spacecho_instance_t                                                  *)
(* ------------------------------------------------------------------ *)
Channels == 0..(MAX_CHANNELS - 1)

\* storage that calloc has not handed out
NoInstance ==
    [module_dir        |-> << >>,
     delayLine         |-> [ch \in Channels |->
                              [buffer |-> "null", data |-> Zeroed,
                               bufferLength |-> 0, writePosition |-> 0,
                               sampleRate |-> 0]],
     toneFilter        |-> [ch \in Channels |-> [z1 |-> 0, a0 |-> 0, b1 |-> 0]],
     smoothedDelayTime |-> SmoothedValue_Init(0),
     smoothedFeedback  |-> SmoothedValue_Init(0),
     smoothedMix       |-> SmoothedValue_Init(0),
     smoothedTone      |-> SmoothedValue_Init(0),
     param_time        |-> 0,
     param_feedback    |-> 0,
     param_mix         |-> 0,
     param_tone        |-> 0,
     param_saturation  |-> 0,
     initialized       |-> 0]

\* strncpy(inst->module_dir, module_dir, sizeof(inst->module_dir) - 1)
CopyModuleDir(module_dir) ==
    IF module_dir = << "NULL" >> THEN << >>
    ELSE SubSeq(module_dir, 1, Min(Len(module_dir), 255))

\* the instance v2_create_instance returns once the record is allocated;
\* bufOk[ch]: whether the calloc of channel ch's buffer succeeded
NewInstance(module_dir, bufOk) ==
    [module_dir        |-> CopyModuleDir(module_dir),
     delayLine         |-> [ch \in Channels |->
                              DelayLine_Init(SAMPLE_RATE, bufOk[ch])],
     toneFilter        |-> [ch \in Channels |->
                              OnePoleFilter_SetCutoff(OnePoleFilter_Init,
                                  GetToneFrequency(500000), SAMPLE_RATE)],
     smoothedDelayTime |-> SmoothedValue_Init(GetDelayTimeSeconds(300000)),
     smoothedFeedback  |-> SmoothedValue_Init(GetFeedback(400000)),
     smoothedMix       |-> SmoothedValue_Init(500000),
     smoothedTone      |-> SmoothedValue_Init(500000),
     param_time        |-> 300000,
     param_feedback    |-> 400000,
     param_mix         |-> 500000,
     param_tone        |-> 500000,
     param_saturation  |-> 0,
     initialized       |-> 1]

(* ------------------------------------------------------------------ *)
(* v2_set_param, v2_get_param on the record                             *)
(* ------------------------------------------------------------------ *)
\* v after "if (v < 0.0f) v = 0.0f; if (v > 1.0f) v = 1.0f;"
Clamp01(v) ==
    LET lo == IF FLt(v, 0) THEN 0 ELSE v
    IN  IF FGt(lo, ONE) THEN ONE ELSE lo

\* v2_set_param as it would be if "stereo_width" reached the DSP: here it
\* retargets the mix
SetParamOnWide(I, key, val) ==
    LET v == Clamp01(Atof(val))
    IN  IF key = "time"
        THEN [I EXCEPT
                !.param_time = v,
                !.smoothedDelayTime =
                    SmoothedValue_SetTarget(I.smoothedDelayTime,
                        GetDelayTimeSeconds(v), RAMP_SAMPLES)]
        ELSE IF key = "feedback"
        THEN [I EXCEPT
                !.param_feedback = v,
                !.smoothedFeedback =
                    SmoothedValue_SetTarget(I.smoothedFeedback,
                        GetFeedback(v), RAMP_SAMPLES)]
        ELSE IF key = "mix"
        THEN [I EXCEPT
                !.param_mix = v,
                !.smoothedMix =
                    SmoothedValue_SetTarget(I.smoothedMix, v, RAMP_SAMPLES)]
        ELSE IF key = "tone"
        THEN [I EXCEPT
                !.param_tone = v,
                !.toneFilter = [ch \in Channels |->
                    OnePoleFilter_SetCutoff(I.toneFilter[ch],
                        GetToneFrequency(v), SAMPLE_RATE)]]
        ELSE IF key = "saturation"
        THEN [I EXCEPT !.param_saturation = v]
        ELSE IF key = "stereo_width"
        THEN [I EXCEPT
                !.smoothedMix =
                    SmoothedValue_SetTarget(I.smoothedMix, v, RAMP_SAMPLES)]
        ELSE I

SetParamOn(I, key, val) ==
    LET v == Clamp01(Atof(val))
    IN  IF key = "time"
        THEN [I EXCEPT
                !.param_time = v,
                !.smoothedDelayTime =
                    SmoothedValue_SetTarget(I.smoothedDelayTime,
                        GetDelayTimeSeconds(v), RAMP_SAMPLES)]
        ELSE IF key = "feedback"
        THEN [I EXCEPT
                !.param_feedback = v,
                !.smoothedFeedback =
                    SmoothedValue_SetTarget(I.smoothedFeedback,
                        GetFeedback(v), RAMP_SAMPLES)]
        ELSE IF key = "mix"
        THEN [I EXCEPT
                !.param_mix = v,
                !.smoothedMix =
                    SmoothedValue_SetTarget(I.smoothedMix, v, RAMP_SAMPLES)]
        ELSE IF key = "tone"
        THEN [I EXCEPT
                !.param_tone = v,
                !.toneFilter = [ch \in Channels |->
                    OnePoleFilter_SetCutoff(I.toneFilter[ch],
                        GetToneFrequency(v), SAMPLE_RATE)]]
        ELSE IF key = "saturation"
        THEN [I EXCEPT !.param_saturation = v]
        ELSE I

\* strlen of the two JSON texts v2_get_param copies out
UiHierarchyLen == 159
ChainParamsLen == 319

\* [ret, buf]: the int returned and the text left in buf
GetParamOn(I, key, buf_len) ==
    IF key = "time" THEN Snprintf(Fmt2f(I.param_time), buf_len)
    ELSE IF key = "feedback" THEN Snprintf(Fmt2f(I.param_feedback), buf_len)
    ELSE IF key = "mix" THEN Snprintf(Fmt2f(I.param_mix), buf_len)
    ELSE IF key = "tone" THEN Snprintf(Fmt2f(I.param_tone), buf_len)
    ELSE IF key = "saturation"
    THEN Snprintf(Fmt2f(I.param_saturation), buf_len)
    ELSE IF key = "name"
    THEN Snprintf(<< "S", "p", "a", "c", "e", " ", "E", "c", "h", "o" >>,
                  buf_len)
    ELSE IF key = "ui_hierarchy"
    THEN (IF UiHierarchyLen < buf_len
          THEN [ret |-> UiHierarchyLen, buf |-> << "ui_hierarchy json" >>]
          ELSE [ret |-> 0 - 1, buf |-> << >>])
    ELSE IF key = "chain_params"
    THEN (IF ChainParamsLen < buf_len
          THEN [ret |-> ChainParamsLen, buf |-> << "chain_params json" >>]
          ELSE [ret |-> 0 - 1, buf |-> << >>])
    ELSE [ret |-> 0 - 1, buf |-> << >>]

(* ------------------------------------------------------------------ *)
(* v2_process_block on the record                                       *)
(* ------------------------------------------------------------------ *)
\* audio_inout[..] / 32768.0f
InFloat(a) == Sgn(a) * ((Abs(a) * 15625) \div 512)

\* the output stage without its clip
ClipOutOff(out) == out

\* out after "if (out > 1.0f) out = 1.0f; if (out < -1.0f) out = -1.0f;"
ClipOut(out) ==
    LET hi == IF FGt(out, ONE) THEN ONE ELSE out
    IN  IF FLt(hi, 0 - ONE) THEN 0 - ONE ELSE hi

\* (int16_t)(out * 32767.0f) of the clipped out; the conversion of a NaN
\* is undefined and yields ubInt16
OutInt16(out, ubInt16) ==
    LET c == ClipOut(out)
    IN  IF IsNaN(c) THEN ubInt16 ELSE FMul(c, 32767)

\* the loop over ch for one channel, from the filter on: rd is what
\* DelayLine_Read returned, filter1 the filter after OnePoleFilter_Process
ChannelWrite(dl, filter1, in, feedback, mix, saturation, ub) ==
    [dl     |-> DelayLine_Write(dl,
                    FAdd(in, FMul(SoftSaturate(filter1.z1, saturation),
                                  feedback))),
     filter |-> filter1,
     out    |-> OutInt16(FAdd(FMul(in, FSub(ONE, mix)), FMul(filter1.z1, mix)),
                         ub.int16),
     fault  |-> "none"]

ChannelFilter(dl, filter, sample, rd, feedback, mix, saturation, ub) ==
    IF rd.fault # "none"
    THEN [dl |-> dl, filter |-> filter, out |-> sample, fault |-> rd.fault]
    ELSE ChannelWrite(dl, OnePoleFilter_Process(filter, rd.value),
                      InFloat(sample), feedback, mix, saturation, ub)

\* the body of the loop over ch for one channel:
\* [dl, filter, out, fault] after it
ChannelFrame(dl, filter, sample, delayTime, feedback, mix, saturation, ub) ==
    ChannelFilter(dl, filter, sample, DelayLine_Read(dl, delayTime, ub),
                  feedback, mix, saturation, ub)

\* one iteration of the loop over i, once both channels are computed
FrameResult(st, I0, c0, c1, left, right) ==
    IF c0.fault # "none"
    THEN [inst |-> I0, out |-> st.out \o << left, right >>,
          fault |-> c0.fault]
    ELSE IF c1.fault # "none"
    THEN [inst  |-> [I0 EXCEPT !.delayLine[0]  = c0.dl,
                               !.toneFilter[0] = c0.filter],
          out   |-> st.out \o << c0.out, right >>,
          fault |-> c1.fault]
    ELSE [inst  |-> [I0 EXCEPT !.delayLine[0]  = c0.dl,
                               !.toneFilter[0] = c0.filter,
                               !.delayLine[1]  = c1.dl,
                               !.toneFilter[1] = c1.filter],
          out   |-> st.out \o << c0.out, c1.out >>,
          fault |-> "none"]

\* one iteration of the loop over i, the three smoothers advanced
FrameChannels(st, I0, left, right, ub) ==
    FrameResult(st, I0,
        ChannelFrame(I0.delayLine[0], I0.toneFilter[0], left,
            I0.smoothedDelayTime.currentValue,
            I0.smoothedFeedback.currentValue,
            I0.smoothedMix.currentValue, I0.param_saturation, ub),
        ChannelFrame(I0.delayLine[1], I0.toneFilter[1], right,
            I0.smoothedDelayTime.currentValue,
            I0.smoothedFeedback.currentValue,
            I0.smoothedMix.currentValue, I0.param_saturation, ub),
        left, right)

\* one iteration of the loop over i: st = [inst, out, fault], the record,
\* the samples written so far and the fault that ended the run, if any
ProcessFrame(st, left, right, ub) ==
    IF st.fault # "none"
    THEN [st EXCEPT !.out = st.out \o << left, right >>]
    ELSE FrameChannels(st,
             [st.inst EXCEPT
                !.smoothedDelayTime = SmoothedValue_GetNext(@),
                !.smoothedFeedback  = SmoothedValue_GetNext(@),
                !.smoothedMix       = SmoothedValue_GetNext(@)],
             left, right, ub)

\* the one element of a one-element set: evaluates a stage of the loop
\* before the next stage reads it
TheOne(S) == CHOOSE x \in S : TRUE

\* iterations lo .. hi-1 of the loop over i, in order
RECURSIVE ProcessFrames(_, _, _, _, _)
ProcessFrames(st, audio, lo, hi, ub) ==
    IF lo >= hi THEN st
    ELSE IF hi - lo = 1
    THEN ProcessFrame(st, audio[2 * lo + 1], audio[2 * lo + 2], ub)
    ELSE LET mid == lo + (hi - lo) \div 2
         IN  TheOne({ ProcessFrames(m, audio, mid, hi, ub) :
                        m \in { ProcessFrames(st, audio, lo, mid, ub) } })

\* what the last iteration of the loop over i used, read off the record
\* it left: the three smoothed values and the tone filter's coefficient
FrameUsed(I) ==
    [delayTime |-> I.smoothedDelayTime.currentValue,
     feedback  |-> I.smoothedFeedback.currentValue,
     mix       |-> I.smoothedMix.currentValue,
     b1        |-> I.toneFilter[0].b1]

\* v2_process_block as it would be if it stepped the mix once per call,
\* ahead of its loop
ProcessBlockOnPerCall(I, audio, frames, ub) ==
    ProcessFrames([inst  |-> [I EXCEPT !.smoothedMix =
                                 SmoothedValue_GetNext(I.smoothedMix)],
                   out   |-> << >>,
                   fault |-> "none"],
                  audio, 0, frames, ub)

\* v2_process_block past its guard: [inst, out, fault]
ProcessBlockOn(I, audio, frames, ub) ==
    ProcessFrames([inst |-> I, out |-> << >>, fault |-> "none"],
                  audio, 0, frames, ub)

(* ------------------------------------------------------------------ *)
(* State                                                                *)
(* ------------------------------------------------------------------ *)
\* instances a run may create
MaxInst == 2

Handles == 1..MaxInst
NULL == 0

VARIABLES
    inst,     \* inst[h]: the record behind handle h (its last contents, if freed)
    heap,     \* heap[h]: the allocation state of the record and of each
              \* buffer, and how many times free() was called on each
    uaf,      \* storage was read or written after its release
    fault,    \* "none", or the fault that ended the process
    call,     \* the last API call and its arguments
    result,   \* what that call returned or left in its out-parameters
    lastSet,  \* lastSet[h][k]: << clamp(v) >> of the last set_param(h, k, v),
              \* << >> before the first
    count,    \* set_param and process_block calls made so far, and the
              \* frames processed since the last set_param
    used,     \* used[h]: << the values the last frame processed on h
              \* used >>, << >> before the first
    test,     \* the impulse test under way: its case, its position and
              \* the non-zero frames of its output buffer so far
    unit      \* a component driven on its own: a SmoothedValue or a
              \* DelayLine, and the last call made on it

vars ==
    << inst, heap, uaf, fault, call, result, lastSet, count, used, test,
       unit >>

\* the keys v2_set_param stores and v2_get_param prints
StoredKeys == { "time", "feedback", "mix", "tone", "saturation" }

\* the keys of the parameter set
ParamKeys ==
    { "time", "feedback", "mix", "tone", "flutter", "saturation",
      "stereo_width" }

NoBlock == [state |-> "unallocated", frees |-> 0]

\* no impulse test under way
NoTest == [phase |-> "none"]

\* no component driven on its own
NoUnit == [kind |-> "none"]

Init ==
    /\ inst = [h \in Handles |-> NoInstance]
    /\ heap = [h \in Handles |->
                 [record |-> NoBlock, buffer |-> [ch \in Channels |-> NoBlock]]]
    /\ uaf = FALSE
    /\ fault = "none"
    /\ call = [op |-> "none"]
    /\ result = [ret |-> 0]
    /\ lastSet = [h \in Handles |-> [k \in ParamKeys |-> << >>]]
    /\ count = [set_param |-> 0, process_block |-> 0, since |-> 0]
    /\ used = [h \in Handles |-> << >>]
    /\ test = NoTest
    /\ unit = NoUnit

\* a handle a caller can hold: NULL, or one create_instance returned
Held(h) == h = NULL \/ (h \in Handles /\ heap[h].record.state # "unallocated")
Live(h) == h \in Handles /\ heap[h].record.state = "live"
Freed(h) == h \in Handles /\ heap[h].record.state = "freed"

(* ------------------------------------------------------------------ *)
(* v2_create_instance                                                   *)
(* ------------------------------------------------------------------ *)
\* ok.record, ok.buffer[ch]: whether each calloc succeeds
CreateInstance(module_dir, ok) ==
    /\ fault = "none"
    /\ \E h \in Handles : heap[h].record.state = "unallocated"
    /\ LET h == CHOOSE x \in Handles :
                   /\ heap[x].record.state = "unallocated"
                   /\ \A y \in Handles :
                         heap[y].record.state = "unallocated" => x <= y
       IN  IF ~ok.record
           THEN /\ result' = [ret |-> NULL]
                /\ UNCHANGED << inst, heap >>
           ELSE /\ inst' = [inst EXCEPT ![h] = NewInstance(module_dir, ok.buffer)]
                /\ heap' = [heap EXCEPT ![h] =
                       [record |-> [state |-> "live", frees |-> 0],
                        buffer |-> [ch \in Channels |->
                           IF ok.buffer[ch]
                           THEN [state |-> "live", frees |-> 0]
                           ELSE NoBlock]]]
                /\ result' = [ret |-> h]
    /\ call' = [op |-> "create_instance", module_dir |-> module_dir,
                allocated |-> ok]
    /\ UNCHANGED << uaf, fault, lastSet, count, used >>

(* ------------------------------------------------------------------ *)
(* v2_destroy_instance                                                  *)
(* ------------------------------------------------------------------ *)
FreeBlock(b) == [state |-> "freed", frees |-> b.frees + 1]

\* On a live record: the code as written.  On a freed record every read
\* is of released storage: ub.initialized is what the read of
\* inst->initialized yields and ub.buffers the channels whose buffer
\* pointer reads as non-null; free(inst) is then called a second time.
DestroyInstance(h, ub) ==
    /\ fault = "none"
    /\ Held(h)
    /\ call' = [op |-> "destroy_instance", instance |-> h]
    /\ result' = [ret |-> 0]
    /\ IF h = NULL
       THEN UNCHANGED << inst, heap, uaf >>
       ELSE LET stale  == Freed(h)
                init   == IF stale THEN ub.initialized ELSE inst[h].initialized
                nonnil == { ch \in Channels :
                              IF stale THEN ch \in ub.buffers
                              ELSE inst[h].delayLine[ch].buffer # "null" }
                freedCh == IF init # 0 THEN nonnil ELSE {}
            IN  /\ inst' = [inst EXCEPT ![h].delayLine =
                       [ch \in Channels |->
                          IF init # 0
                          THEN DelayLine_Free(inst[h].delayLine[ch])
                          ELSE inst[h].delayLine[ch]]]
                /\ heap' = [heap EXCEPT ![h] =
                       [record |-> FreeBlock(heap[h].record),
                        buffer |-> [ch \in Channels |->
                           IF ch \in freedCh
                           THEN FreeBlock(heap[h].buffer[ch])
                           ELSE heap[h].buffer[ch]]]]
                /\ uaf' = (uaf \/ stale)
    /\ UNCHANGED << fault, lastSet, count, used >>

(* ------------------------------------------------------------------ *)
(* v2_process_block                                                     *)
(* ------------------------------------------------------------------ *)
\* audio: audio_inout, 2 * frames samples.  On a freed record
\* ub.initialized is what the read of inst->initialized yields, and the
\* loop then runs on the record's last contents.
ProcessBlock(h, audio, frames, ub) ==
    /\ fault = "none"
    /\ Held(h)
    /\ Len(audio) = 2 * frames
    /\ call' = [op |-> "process_block", instance |-> h, audio |-> audio,
                frames |-> frames]
    /\ count' = [count EXCEPT !.process_block = @ + 1,
                              !.since = IF h = NULL THEN @ ELSE @ + frames]
    /\ IF h = NULL
       THEN /\ result' = [audio |-> audio]
            /\ UNCHANGED << inst, uaf, fault, used >>
       ELSE /\ uaf' = (uaf \/ Freed(h))
            /\ IF (IF Freed(h) THEN ub.initialized
                   ELSE inst[h].initialized) = 0
               THEN /\ result' = [audio |-> audio]
                    /\ UNCHANGED << inst, fault, used >>
               ELSE \E run \in { ProcessBlockOn(inst[h], audio, frames, ub) } :
                    /\ inst' = [inst EXCEPT ![h] = run.inst]
                    /\ fault' = run.fault
                    /\ result' = [audio |-> run.out]
                    /\ used' = IF frames > 0 /\ run.fault = "none"
                               THEN [used EXCEPT ![h] = << FrameUsed(run.inst) >>]
                               ELSE used
    /\ UNCHANGED << heap, lastSet >>

(* ------------------------------------------------------------------ *)
(* v2_set_param, v2_get_param                                           *)
(* ------------------------------------------------------------------ *)
\* v2_set_param as it would be if the instances shared their parameters
SetParamShared(h, key, val) ==
    /\ fault = "none"
    /\ Held(h)
    /\ call' = [op |-> "set_param", instance |-> h, key |-> key, val |-> val]
    /\ result' = [ret |-> 0]
    /\ count' = [count EXCEPT !.set_param = @ + 1, !.since = 0]
    /\ IF h = NULL
       THEN UNCHANGED << inst, uaf, lastSet >>
       ELSE /\ inst' = [x \in Handles |-> SetParamOn(inst[x], key, val)]
            /\ uaf' = (uaf \/ (Freed(h) /\ key \in StoredKeys))
            /\ lastSet' = IF key \in ParamKeys
                          THEN [lastSet EXCEPT ![h][key] =
                                   << Clamp01(Atof(val)) >>]
                          ELSE lastSet
    /\ UNCHANGED << heap, fault, used >>

SetParam(h, key, val) ==
    /\ fault = "none"
    /\ Held(h)
    /\ call' = [op |-> "set_param", instance |-> h, key |-> key, val |-> val]
    /\ result' = [ret |-> 0]
    /\ count' = [count EXCEPT !.set_param = @ + 1, !.since = 0]
    /\ IF h = NULL
       THEN UNCHANGED << inst, uaf, lastSet >>
       ELSE /\ inst' = [inst EXCEPT ![h] = SetParamOn(inst[h], key, val)]
            /\ uaf' = (uaf \/ (Freed(h) /\ key \in StoredKeys))
            /\ lastSet' = IF key \in ParamKeys
                          THEN [lastSet EXCEPT ![h][key] =
                                   << Clamp01(Atof(val)) >>]
                          ELSE lastSet
    /\ UNCHANGED << heap, fault, used >>

GetParam(h, key, buf_len) ==
    /\ fault = "none"
    /\ Held(h)
    /\ call' = [op |-> "get_param", instance |-> h, key |-> key,
                buf_len |-> buf_len]
    /\ IF h = NULL
       THEN /\ result' = [ret |-> 0 - 1, buf |-> << >>]
            /\ UNCHANGED uaf
       ELSE /\ result' = GetParamOn(inst[h], key, buf_len)
            /\ uaf' = (uaf \/ (Freed(h) /\ key \in StoredKeys))
    /\ UNCHANGED << inst, heap, fault, lastSet, count, used >>

(* ------------------------------------------------------------------ *)
(* Inputs                                                               *)
(* ------------------------------------------------------------------ *)
NoDir == << "NULL" >>

Allocations == [record : BOOLEAN, buffer : [Channels -> BOOLEAN]]
AllAllocated == [record |-> TRUE, buffer |-> [ch \in Channels |-> TRUE]]

\* INT_MIN
IntMin == 0 - 2147483647 - 1

\* what the undefined conversions, the loads outside a buffer and the
\* reads of released storage yield
Undefined ==
    [int : {0, IntMin}, int16 : {0, 0 - 32768}, load : { << >>, << 0 >>, << ONE >> },
     initialized : {0, 1}, buffers : SUBSET Channels]
Defined ==
    [int |-> 0, int16 |-> 0, load |-> << >>, initialized |-> 1,
     buffers |-> {}]

\* calls of free() on one block a run may make
MaxFrees == 2

(* ------------------------------------------------------------------ *)
(* Spec: the life of the instances                                      *)
(* ------------------------------------------------------------------ *)
LifeMaxSets == 1
LifeMaxBlocks == 2

Next ==
    \/ \E ok \in Allocations :
            /\ CreateInstance(NoDir, ok)
            /\ UNCHANGED << test, unit >>
    \/ \E h \in {NULL} \cup Handles :
         \E ub \in [initialized : {0, 1}, buffers : SUBSET Channels] :
            /\ h # NULL => heap[h].record.frees < MaxFrees
            /\ DestroyInstance(h, ub)
            /\ UNCHANGED << test, unit >>
    \/ \E h \in {NULL} \cup Handles :
         \E ub \in [int : {0}, int16 : {0}, load : { << >> },
                    initialized : {0, 1}] :
            /\ count.process_block < LifeMaxBlocks
            /\ ProcessBlock(h, << 30000, 0 >>, 1, ub)
            /\ UNCHANGED << test, unit >>
    \/ \E h \in {NULL} \cup Handles :
            /\ count.set_param < LifeMaxSets
            /\ SetParam(h, "mix", << "1", ".", "0" >>)
            /\ UNCHANGED << test, unit >>
    \/ \E h \in {NULL} \cup Handles :
            /\ GetParam(h, "mix", 16)
            /\ UNCHANGED << test, unit >>

Spec == Init /\ [][Next]_vars

\* the states of the lifecycle: Uninitialized, Ready, Destroyed
Ready(h) == Live(h) /\ inst[h].initialized # 0

\* C2: destroying an instance is idempotent, so over any sequence of
\* create and destroy calls no block of storage (an instance's record or
\* one of its delay buffers) is released more than once.
C2_ReleasedOnce ==
    \A h \in Handles :
       /\ heap[h].record.frees <= 1
       /\ \A ch \in Channels : heap[h].buffer[ch].frees <= 1

\* the storage and the DSP state a call may change
Store3 == << inst, heap, uaf, fault, used >>

\* C3: an instance moves only Uninitialized -> Ready -> Destroyed, and
\* a process_block, set_param or get_param call on a handle that is not
\* Ready (null or already destroyed) is a no-op: it changes no state,
\* leaves the audio block as it was and touches no released storage.
C3_NotReadyIsNoOp ==
    [][ /\ \A h \in Handles :
              heap'[h].record.state # heap[h].record.state =>
                 \/ /\ heap[h].record.state = "unallocated"
                    /\ heap'[h].record.state = "live"
                 \/ /\ heap[h].record.state = "live"
                    /\ heap'[h].record.state = "freed"
        /\ ( /\ call'.op \in { "process_block", "set_param", "get_param" }
             /\ ~Ready(call'.instance) )
           => /\ Store3' = Store3
              /\ call'.op = "process_block" => result'.audio = call'.audio
      ]_vars

\* C4: create_instance either returns a Ready instance whose delay
\* buffers (one per channel) are all allocated and zeroed, or, when any
\* allocation fails, returns null; so every Ready instance has both its
\* buffers.
C4_CreateAllOrNothing ==
    /\ ( /\ call.op = "create_instance"
         /\ \/ ~call.allocated.record
            \/ \E ch \in Channels : ~call.allocated.buffer[ch] )
       => result.ret = NULL
    /\ \A h \in Handles :
          Ready(h) => \A ch \in Channels :
                         /\ inst[h].delayLine[ch].buffer # "null"
                         /\ heap[h].buffer[ch].state = "live"

(* ------------------------------------------------------------------ *)
(* SpecParam: the parameter interface of one instance                   *)
(* ------------------------------------------------------------------ *)
ParamMaxSets == 2
ParamMaxBlocks == 1

\* the values a host sends: below, inside and above [0, 1], a percentage,
\* and the texts atof reads as not-a-number and as infinity
ParamTexts ==
    { << "-", "0", ".", "5" >>,
      << "0", ".", "3", "3", "3" >>,
      << "1", ".", "0" >>,
      << "1", "0", "0" >>,
      << "n", "a", "n" >>,
      << "i", "n", "f" >> }

SetKeys == ParamKeys \cup { "bogus" }
GetKeys == ParamKeys \cup { "name", "ui_hierarchy", "chain_params", "bogus" }

NextParam ==
    \/ /\ heap[1].record.state = "unallocated"
       /\ CreateInstance(NoDir, AllAllocated)
       /\ UNCHANGED << test, unit >>
    \/ \E key \in SetKeys : \E val \in ParamTexts :
          /\ count.set_param < ParamMaxSets
          /\ SetParam(1, key, val)
          /\ UNCHANGED << test, unit >>
    \/ \E key \in GetKeys : \E buf_len \in { 16, 512 } :
          /\ GetParam(1, key, buf_len)
          /\ UNCHANGED << test, unit >>
    \/ \E ub \in [int : {0, IntMin}, int16 : {0, 0 - 32768},
                  load : { << >>, << 0 >> }, initialized : {1}] :
          /\ count.process_block < ParamMaxBlocks
          /\ ProcessBlock(1, << 30000, 0 - 30000 >>, 1, ub)
          /\ UNCHANGED << test, unit >>

SpecParam == Init /\ [][NextParam]_vars

\* C1: seven normalized parameters (time, feedback, mix, tone, flutter,
\* saturation, stereo_width) are set and read as strings by key, and the
\* value read back for a key is clamp(v, 0, 1) of the last value v set.
C1_ReadsBackLastSet ==
    ( /\ call.op = "get_param"
      /\ Live(call.instance)
      /\ call.key \in ParamKeys
      /\ lastSet[call.instance][call.key] # << >> )
    => /\ result.ret > 0
       /\ Atof(result.buf) = lastSet[call.instance][call.key][1]

InRange(x, lo, hi) == ~IsNaN(x) /\ lo <= x /\ x <= hi

\* C5: whatever value is set (below 0, above 1, or not a finite number),
\* the stored parameter lies in [0, 1] and the targets of the smoothers
\* lie in their mapped ranges; no non-finite value reaches the DSP state.
C5_StoredInRange ==
    \A h \in Handles :
       Live(h) =>
          /\ InRange(inst[h].param_time, 0, ONE)
          /\ InRange(inst[h].param_feedback, 0, ONE)
          /\ InRange(inst[h].param_mix, 0, ONE)
          /\ InRange(inst[h].param_tone, 0, ONE)
          /\ InRange(inst[h].param_saturation, 0, ONE)
          /\ InRange(inst[h].smoothedDelayTime.targetValue,
                     GetDelayTimeSeconds(0), GetDelayTimeSeconds(ONE))
          /\ InRange(inst[h].smoothedFeedback.targetValue,
                     GetFeedback(0), GetFeedback(ONE))
          /\ InRange(inst[h].smoothedMix.targetValue, 0, ONE)
          /\ \A ch \in Channels : InRange(inst[h].toneFilter[ch].b1, 0, ONE)

\* C18: in every reachable state, in the middle of a ramp and after a
\* set_param during a ramp included, the feedback gain v2_process_block
\* multiplies the delayed signal by lies in [0, 0.95].
C18_FeedbackGainBounded ==
    \A h \in Handles :
       used[h] # << >> =>
          InRange(used[h][1].feedback, GetFeedback(0), GetFeedback(ONE))

(* ------------------------------------------------------------------ *)
(* SpecRamp: parameter changes while audio runs                         *)
(* ------------------------------------------------------------------ *)
RampMaxSets == 2
RampMaxBlocks == 4

Silence(frames) == [i \in 1..(2 * frames) |-> 0]

\* A host that changes the four smoothed parameters between blocks: it
\* processes frame by frame, or lets all but the last frame of a ramp
\* run in one block after its first change.
NextRamp ==
    \/ /\ heap[1].record.state = "unallocated"
       /\ CreateInstance(NoDir, AllAllocated)
       /\ UNCHANGED << test, unit >>
    \/ \E key \in { "time", "feedback", "mix", "tone" } :
       \E val \in { << "0" >>, << "1", ".", "0" >> } :
          /\ count.set_param < RampMaxSets
          /\ SetParam(1, key, val)
          /\ UNCHANGED << test, unit >>
    \/ /\ count.process_block < RampMaxBlocks
       /\ ProcessBlock(1, Silence(1), 1, Defined)
       /\ UNCHANGED << test, unit >>
    \/ /\ count.set_param = 1
       /\ call.op = "set_param"
       /\ ProcessBlock(1, Silence(RAMP_SAMPLES - 1), RAMP_SAMPLES - 1, Defined)
       /\ UNCHANGED << test, unit >>

SpecRamp == Init /\ [][NextRamp]_vars

\* the values a frame uses once every ramp has ended
Targets(I) ==
    [delayTime |-> GetDelayTimeSeconds(I.param_time),
     feedback  |-> GetFeedback(I.param_feedback),
     mix       |-> I.param_mix,
     b1        |-> OnePoleFilter_SetCutoff(OnePoleFilter_Init,
                       GetToneFrequency(I.param_tone), SAMPLE_RATE).b1]

\* the largest step a ramp over the whole range of each value takes in
\* one frame
MaxRampStep ==
    [delayTime |-> (GetDelayTimeSeconds(ONE) - GetDelayTimeSeconds(0))
                       \div RAMP_SAMPLES,
     feedback  |-> (GetFeedback(ONE) - GetFeedback(0)) \div RAMP_SAMPLES,
     mix       |-> ONE \div RAMP_SAMPLES,
     b1        |-> ONE \div RAMP_SAMPLES]

\* what the truncated steps of one ramp can leave for its last frame
RampSlack == RAMP_SAMPLES

Smoothed == { "delayTime", "feedback", "mix", "b1" }

\* C6: after a parameter change the values process_block uses for delay
\* time, feedback, mix and tone cutoff move to their targets by ramps of
\* RAMP_SAMPLES frames: between two consecutive frames none moves by more
\* than one ramp step, and RAMP_SAMPLES frames after the last change each
\* equals its target.
C6_RampsToTarget ==
    [][ /\ ( /\ call'.op = "process_block"
             /\ call'.frames = 1
             /\ count'.process_block = count.process_block + 1
             /\ used[1] # << >>
             /\ used'[1] # << >> )
           => \A q \in Smoothed :
                 Abs(used'[1][1][q] - used[1][1][q])
                    <= MaxRampStep[q] + RampSlack
        /\ ( /\ count'.since >= RAMP_SAMPLES
             /\ used'[1] # << >> )
           => used'[1][1] = Targets(inst'[1])
      ]_vars

(* ------------------------------------------------------------------ *)
(* SpecImpulse: run_impulse_case of tests/spacecho_pingpong_test.c      *)
(* ------------------------------------------------------------------ *)
\* const int frames, settle_frames, delay_frame of the test
TestFrames == 20000
SettleFrames == 3000
TestDelayFrame == 17640

\* frames the host hands to one process_block call
TestBlock == 500

\* width_value (<< >> for NULL) and the impulse of each case
TestCases ==
    { [width |-> << << "1", "0", "0" >> >>, impulse |-> << 30000, 0 >>],
      [width |-> << << "1", "0", "0" >> >>, impulse |-> << 30000, 30000 >>],
      [width |-> << << "0" >> >>,           impulse |-> << 30000, 0 >>],
      [width |-> << << "0" >> >>,           impulse |-> << 30000, 30000 >>],
      [width |-> << >>,                     impulse |-> << 30000, 30000 >>] }

\* frames lo .. lo+n-1 of the test buffer, all zero but for the impulse
\* in frame 0
TestAudio(impulse, lo, n) ==
    [i \in 1..(2 * n) |->
       IF lo = 0 /\ i = 1 THEN impulse[1]
       ELSE IF lo = 0 /\ i = 2 THEN impulse[2]
       ELSE 0]

\* the non-zero frames of a processed block that starts at frame lo
NonZero(audio, lo) ==
    [f \in { lo + i : i \in { j \in 0..((Len(audio) \div 2) - 1) :
                                 audio[2 * j + 1] # 0 \/ audio[2 * j + 2] # 0 } }
       |-> << audio[2 * (f - lo) + 1], audio[2 * (f - lo) + 2] >>]

\* api->create_instance(NULL, "{}")
TestCreate ==
    \E case \in TestCases :
       /\ test.phase = "none"
       /\ CreateInstance(NoDir, AllAllocated)
       /\ test' = [phase |-> "mix", width |-> case.width,
                   impulse |-> case.impulse, fed |-> 0,
                   out |-> [f \in {} |-> << 0, 0 >>]]
       /\ UNCHANGED unit

\* the three set_param calls, and the fourth when width_value is given
TestSetParam ==
    \/ /\ test.phase = "mix"
       /\ SetParam(1, "mix", << "1", ".", "0" >>)
       /\ test' = [test EXCEPT !.phase = "feedback"]
    \/ /\ test.phase = "feedback"
       /\ SetParam(1, "feedback", << "0", ".", "0" >>)
       /\ test' = [test EXCEPT !.phase = "tone"]
    \/ /\ test.phase = "tone"
       /\ SetParam(1, "tone", << "1", ".", "0" >>)
       /\ test' = [test EXCEPT !.phase =
                      IF test.width = << >> THEN "impulse" ELSE "width"]
    \/ /\ test.phase = "width"
       /\ SetParam(1, "stereo_width", test.width[1])
       /\ test' = [test EXCEPT !.phase = "settle"]

\* api->process_block(instance, settle, settle_frames), block by block
TestSettle ==
    /\ test.phase = "settle"
    /\ \E n \in { Min(TestBlock, SettleFrames - count.since) } :
          /\ ProcessBlock(1, Silence(n), n, Defined)
          /\ test' = [test EXCEPT !.phase =
                         IF count.since + n >= SettleFrames
                         THEN "impulse" ELSE "settle"]

\* api->process_block(instance, buffer, frames), block by block
TestProcess ==
    /\ test.phase = "impulse"
    /\ \E n \in { Min(TestBlock, TestFrames - test.fed) } :
          /\ ProcessBlock(1, TestAudio(test.impulse, test.fed, n), n, Defined)
          /\ test' = [test EXCEPT
                         !.fed = @ + n,
                         !.out = NonZero(result'.audio, test.fed) @@ @,
                         !.phase = IF test.fed + n >= TestFrames
                                   THEN "done" ELSE "impulse"]

\* api->destroy_instance(instance)
TestDestroy ==
    /\ test.phase = "done"
    /\ DestroyInstance(1, Defined)
    /\ test' = [test EXCEPT !.phase = "destroyed"]

NextImpulse ==
    \/ TestCreate
    \/ TestSetParam /\ UNCHANGED unit
    \/ TestSettle /\ UNCHANGED unit
    \/ TestProcess /\ UNCHANGED unit
    \/ TestDestroy /\ UNCHANGED unit

SpecImpulse == Init /\ [][NextImpulse]_vars

\* the test buffer's frame f once processed
Heard(f) == IF f \in DOMAIN test.out THEN test.out[f] ELSE << 0, 0 >>

\* round(delayTimeSeconds x sampleRate) for the normalized time
EchoFrame(normalized) ==
    ((GetDelayTimeSeconds(normalized) \div 100) * SAMPLE_RATE + 5000)
        \div 10000

\* the frames at which the echo of the impulse is looked for: the one the
\* test reads, and those within one frame of the delay the instance has
ExpectedFrames ==
    { TestDelayFrame } \cup
    { EchoFrame(inst[1].param_time) + d : d \in { 0 - 1, 0, 1 } }

\* C7: with feedback 0, mix 1 and tone at its maximum, an impulse in
\* frame 0 of an otherwise silent stream gives its echo within one frame
\* of round(delayTimeSeconds x sampleRate) and nothing before it, and for
\* a fresh instance with the default time that frame is 17640.
C7_EchoAtDelayFrame ==
    test.phase = "done" =>
       /\ EchoFrame(inst[1].param_time) = TestDelayFrame
       /\ \E d \in { 0 - 1, 0, 1 } :
             Heard(EchoFrame(inst[1].param_time) + d) # << 0, 0 >>
       /\ \A f \in DOMAIN test.out :
             f >= 1 => f >= EchoFrame(inst[1].param_time) - 1

\* C9: with stereo_width "100" (settled), mix 1, feedback 0 and tone at
\* its maximum, an impulse of 30000 on the left only, or on both channels,
\* has its first echo on the right only (right >= 1000, left <= 500), and
\* for the left-only impulse the right echo is at least 15000.
C9_FullWidthEchoesRight ==
    ( /\ test.phase = "done"
      /\ test.width = << << "1", "0", "0" >> >> )
    => \E f \in ExpectedFrames :
          /\ Abs(Heard(f)[2]) >= 1000
          /\ Abs(Heard(f)[1]) <= 500
          /\ test.impulse = << 30000, 0 >> => Abs(Heard(f)[2]) >= 15000

\* C10: with stereo_width "0", mix 1, feedback 0 and tone at its maximum,
\* the echo is shared: an impulse on one channel echoes at the same level
\* on both, and an impulse of 30000 on both channels gives left and right
\* echoes of at least 20000 each, within 500 of each other.
C10_ZeroWidthEchoesBoth ==
    ( /\ test.phase = "done"
      /\ test.width = << << "0" >> >> )
    => \E f \in ExpectedFrames :
          /\ Abs(Abs(Heard(f)[1]) - Abs(Heard(f)[2])) <= 500
          /\ IF test.impulse = << 30000, 30000 >>
             THEN /\ Abs(Heard(f)[1]) >= 20000
                  /\ Abs(Heard(f)[2]) >= 20000
             ELSE /\ Abs(Heard(f)[1]) >= 1000
                  /\ Abs(Heard(f)[2]) >= 1000

(* ------------------------------------------------------------------ *)
(* SpecLoop: the feedback loop under sustained full-scale input         *)
(* ------------------------------------------------------------------ *)
LoopMaxSets == 3
LoopMaxBlocks == 8

\* frames the host hands to one process_block call
LoopBlock == 441

\* INT16_MAX and INT16_MIN, the full-scale samples
Int16Max == 32767
Int16Min == 0 - 32768

\* the shortest delay, the largest feedback, the most saturation
LoopSettings ==
    { [key |-> "time",       val |-> << "0" >>],
      [key |-> "feedback",   val |-> << "1", ".", "0" >>],
      [key |-> "saturation", val |-> << "1", ".", "0" >>] }

\* full scale held (positive on the left, negative on the right), and
\* full scale changing sign every frame
LoopStreams ==
    { [i \in 1..(2 * LoopBlock) |->
         IF i % 2 = 1 THEN Int16Max ELSE Int16Min],
      [i \in 1..(2 * LoopBlock) |->
         IF ((i + 1) \div 2) % 2 = i % 2 THEN Int16Max ELSE Int16Min] }

\* A host that sets each parameter at most once before the audio starts
\* and then feeds the same full-scale block again and again.
NextLoop ==
    \/ /\ heap[1].record.state = "unallocated"
       /\ CreateInstance(NoDir, AllAllocated)
       /\ UNCHANGED << test, unit >>
    \/ \E s \in LoopSettings :
          /\ count.set_param < LoopMaxSets
          /\ count.process_block = 0
          /\ lastSet[1][s.key] = << >>
          /\ SetParam(1, s.key, s.val)
          /\ UNCHANGED << test, unit >>
    \/ \E audio \in LoopStreams :
          /\ count.process_block < LoopMaxBlocks
          /\ call.op = "process_block" => call.audio = audio
          /\ ProcessBlock(1, audio, LoopBlock, Defined)
          /\ UNCHANGED << test, unit >>

SpecLoop == Init /\ [][NextLoop]_vars

\* the sum of the series 1 + g + g^2 + ... for the largest feedback g
LoopBound == ONE * (ONE \div (ONE - GetFeedback(ONE)))

\* C8: for a feedback setting in [0, 0.95], a saturation setting in
\* [0, 1] and input samples in [-1, 1], the values stored in the delay
\* lines stay bounded however many frames are processed, and every
\* output sample process_block writes lies in [-32767, 32767].
C8_LoopBounded ==
    /\ \A h \in Handles : \A ch \in Channels :
          \A i \in DOMAIN inst[h].delayLine[ch].data :
             Abs(inst[h].delayLine[ch].data[i]) <= LoopBound
    /\ call.op = "process_block" =>
          \A i \in 1..Len(result.audio) :
             /\ result.audio[i] >= 0 - Int16Max
             /\ result.audio[i] <= Int16Max

\* the loop has recirculated more than twice full scale with the
\* saturator off, and the output stage has clipped
C8_Recirculated ==
    /\ call.op = "process_block"
    /\ inst[1].param_saturation = 0
    /\ inst[1].smoothedFeedback.currentValue = GetFeedback(ONE)
    /\ \E i \in DOMAIN inst[1].delayLine[0].data :
          inst[1].delayLine[0].data[i] > 2 * ONE
    /\ \E i \in 1..Len(result.audio) : result.audio[i] = Int16Max

(* ------------------------------------------------------------------ *)
(* SpecTwin: two instances given the same calls, the second one also    *)
(* given stereo_width = 0                                               *)
(* ------------------------------------------------------------------ *)
TwinMaxSets == 2
TwinMaxBlocks == 2
TwinMaxWidths == 1
TwinFrames == 2

\* the parameters other than stereo_width a host sets, and their values
TwinKeys == { "time", "feedback", "mix" }
TwinTexts == { << "0" >>, << "1", ".", "0" >> }

\* the input blocks: an impulse in the first frame, and silence
TwinBlocks ==
    { [i \in 1..(2 * TwinFrames) |->
         IF i = 1 THEN 30000 ELSE IF i = 2 THEN 0 - 30000 ELSE 0],
      Silence(TwinFrames) }

\* api->create_instance(NULL, "{}"), twice
TwinCreate ==
    /\ test.phase \in { "none", "twin1" }
    /\ CreateInstance(NoDir, AllAllocated)
    /\ test' = IF test.phase = "none"
               THEN [phase |-> "twin1"]
               ELSE [phase |-> "sync", sets |-> 0, blocks |-> 0, widths |-> 0,
                     out1 |-> << >>, out2 |-> << >>]
    /\ UNCHANGED unit

\* api->set_param(second, "stereo_width", "0"), between any two calls
TwinWidth ==
    /\ test.phase = "sync"
    /\ test.widths < TwinMaxWidths
    /\ SetParam(2, "stereo_width", << "0" >>)
    /\ test' = [test EXCEPT !.widths = @ + 1]
    /\ UNCHANGED unit

\* the same set_param on the first instance, then on the second
TwinSet ==
    \/ \E key \in TwinKeys : \E val \in TwinTexts :
          /\ test.phase = "sync"
          /\ test.sets < TwinMaxSets
          /\ SetParam(1, key, val)
          /\ test' = [test EXCEPT !.phase = "set", !.sets = @ + 1]
          /\ UNCHANGED unit
    \/ /\ test.phase = "set"
       /\ SetParam(2, call.key, call.val)
       /\ test' = [test EXCEPT !.phase = "sync"]
       /\ UNCHANGED unit

\* the same block through the first instance, then through the second
TwinProcess ==
    \/ \E audio \in TwinBlocks :
          /\ test.phase = "sync"
          /\ test.blocks < TwinMaxBlocks
          /\ ProcessBlock(1, audio, TwinFrames, Defined)
          /\ test' = [test EXCEPT !.phase = "block", !.blocks = @ + 1,
                                  !.out1 = result'.audio]
          /\ UNCHANGED unit
    \/ /\ test.phase = "block"
       /\ ProcessBlock(2, call.audio, TwinFrames, Defined)
       /\ test' = [test EXCEPT !.phase = "sync", !.out2 = result'.audio]
       /\ UNCHANGED unit

NextTwin ==
    \/ TwinCreate
    \/ TwinWidth
    \/ TwinSet
    \/ TwinProcess

SpecTwin == Init /\ [][NextTwin]_vars

\* C11: an instance on which stereo_width was never set behaves as one
\* on which it was set to 0: after the same other set_param calls and the
\* same input blocks the two hold the same DSP state and have produced
\* the same output, frame for frame.
C11_WidthUnsetIsZero ==
    test.phase = "sync" =>
       /\ inst[1] = inst[2]
       /\ test.out1 = test.out2

\* both have processed an audible block after a set_param of their mix,
\* the second with stereo_width = 0 set and the first without
C11_TwinHeard ==
    /\ test.phase = "sync"
    /\ lastSet[1]["stereo_width"] = << >>
    /\ lastSet[2]["stereo_width"] = << 0 >>
    /\ lastSet[1]["mix"] # << >>
    /\ test.blocks > 0
    /\ test.out1 # Silence(TwinFrames)

(* ------------------------------------------------------------------ *)
(* SpecSmooth: one SmoothedValue under any calls                        *)
(* ------------------------------------------------------------------ *)
SmoothMaxSets == 2
SmoothMaxGets == 5

\* a short ramp, beside the one v2_set_param asks for
ShortRamp == 3

\* initial values, targets (not-a-number among them) and ramp lengths
SmoothInits == { 0, 500000 }
SmoothTargets == { 0, ONE, NaN }
SmoothRamps == { 0 - 1, 0, ShortRamp, RAMP_SAMPLES }

\* k calls of SmoothedValue_GetNext
RECURSIVE GetNextTimes(_, _)
GetNextTimes(sv, k) ==
    IF k <= 0 THEN sv
    ELSE IF k = 1 THEN SmoothedValue_GetNext(sv)
    ELSE TheOne({ GetNextTimes(half, k - k \div 2) :
                    half \in { GetNextTimes(sv, k \div 2) } })

\* SmoothedValue_Init(&sv, initialValue)
SmoothInit ==
    \E v \in SmoothInits :
       /\ unit.kind = "none"
       /\ unit' = [kind |-> "smoother", sv |-> SmoothedValue_Init(v),
                   op |-> "init", from |-> v, target |-> v, ramp |-> 0,
                   since |-> 0, mid |-> FALSE, sets |-> 0, gets |-> 0]

\* SmoothedValue_SetTarget(&sv, newTarget, rampSamples); from: the value
\* at the call, mid: whether a ramp was under way
SmoothSetTarget ==
    \E newTarget \in SmoothTargets : \E rampSamples \in SmoothRamps :
       /\ unit.kind = "smoother"
       /\ unit.sets < SmoothMaxSets
       /\ unit' = [unit EXCEPT
                      !.sv = SmoothedValue_SetTarget(unit.sv, newTarget,
                                                     rampSamples),
                      !.op = "set_target",
                      !.from = unit.sv.currentValue,
                      !.target = newTarget,
                      !.ramp = rampSamples,
                      !.since = 0,
                      !.mid = unit.sv.stepsRemaining > 0,
                      !.sets = @ + 1]

\* k calls of SmoothedValue_GetNext(&sv): one, or all but the last two of
\* a ramp of RAMP_SAMPLES
SmoothGetNext ==
    \E k \in { 1, RAMP_SAMPLES - 2 } :
       /\ unit.kind = "smoother"
       /\ unit.gets < SmoothMaxGets
       /\ k > 1 => unit.sv.stepsRemaining > k
       /\ unit' = [unit EXCEPT
                      !.sv = GetNextTimes(unit.sv, k),
                      !.op = "get_next",
                      !.since = @ + k,
                      !.gets = @ + 1]

NextSmooth ==
    \/ SmoothInit /\ UNCHANGED << inst, heap, uaf, fault, call, result,
                                  lastSet, count, used, test >>
    \/ SmoothSetTarget /\ UNCHANGED << inst, heap, uaf, fault, call, result,
                                       lastSet, count, used, test >>
    \/ SmoothGetNext /\ UNCHANGED << inst, heap, uaf, fault, call, result,
                                     lastSet, count, used, test >>

SpecSmooth == Init /\ [][NextSmooth]_vars

\* C13: after any sequence of Init, SetTarget (with a positive, zero or
\* negative rampSamples) and GetNext calls, stepsRemaining >= 0, and when
\* stepsRemaining is 0 currentValue holds exactly the value targetValue
\* holds: no drift is left from the additions of step.
C13_NoDrift ==
    unit.kind = "smoother" =>
       /\ unit.sv.stepsRemaining >= 0
       /\ unit.sv.stepsRemaining = 0 =>
             unit.sv.currentValue = unit.sv.targetValue

\* a ramp of three steps from 0 to 1.0 has ended: three additions of the
\* step alone would have left 0.999999
C13_RampEnded ==
    /\ unit.kind = "smoother"
    /\ unit.op = "get_next"
    /\ unit.from = 0
    /\ unit.ramp = ShortRamp
    /\ unit.since = ShortRamp
    /\ unit.sv.stepsRemaining = 0
    /\ unit.sv.currentValue = ONE

\* whether x lies between a and b, ends included
Between(x, a, b) == x >= Min(a, b) /\ x <= Max(a, b)

\* C14: after SetTarget(target, N) with N > 0 the N-th GetNext and every
\* later one, until the next SetTarget, returns exactly target; with
\* N <= 0 the value is target at once.  A SetTarget during a ramp drops
\* that ramp: the new one starts from the value at the call, takes
\* exactly N calls and stays between that value and the new target.
C14_RampLength ==
    ( unit.kind = "smoother" /\ unit.op # "init" ) =>
       /\ unit.since >= Max(unit.ramp, 0) =>
             unit.sv.currentValue = unit.target
       /\ unit.since < unit.ramp =>
             /\ unit.sv.stepsRemaining = unit.ramp - unit.since
             /\ unit.since = 0 => unit.sv.currentValue = unit.from
             /\ ( IsFinite(unit.from) /\ IsFinite(unit.target) ) =>
                   Between(unit.sv.currentValue, unit.from, unit.target)

\* a ramp begun in the middle of another, and in the other direction, has
\* reached its target
C14_Retargeted ==
    /\ unit.kind = "smoother"
    /\ unit.mid
    /\ unit.ramp = ShortRamp
    /\ unit.since = ShortRamp
    /\ unit.op = "get_next"
    /\ unit.target = 0
    /\ unit.from > 0
    /\ unit.sv.currentValue = 0

(* ------------------------------------------------------------------ *)
(* SpecDelay: one DelayLine under any writes and reads                  *)
(* ------------------------------------------------------------------ *)
DelayMaxWrites == 3

\* where the write cursor stands when the calls start: at the start of
\* the buffer, in its middle, and two slots before its end
DelayStarts == { 0, 908, MAX_DELAY_SECONDS * SAMPLE_RATE - 2 }

\* the samples written
DelaySamples == { 0, 500000, 0 - ONE }

\* the delays asked for, in millionths of a second: none, 0.44 and 1.4994
\* samples, 882 samples, 910.0035 samples, 8740.62 samples, and more than
\* the buffer holds
DelayTimes == { 0, 10, 34, 20000, 20635, 198200, 3000000 }

\* what a load outside the buffer does
DelayLoads == { << >>, << ONE >> }

\* the delay line after k writes of silence
RECURSIVE Advanced(_, _)
Advanced(dl, k) ==
    IF k <= 0 THEN dl
    ELSE IF k = 1 THEN DelayLine_Write(dl, 0)
    ELSE TheOne({ Advanced(half, k - k \div 2) :
                    half \in { Advanced(dl, k \div 2) } })

\* DelayLine_Init(&dl, SAMPLE_RATE), then silence up to the start
DelayInit ==
    \E k \in DelayStarts :
       /\ unit.kind = "none"
       /\ unit' = [kind |-> "delay",
                   dl |-> Advanced(DelayLine_Init(SAMPLE_RATE, TRUE), k),
                   op |-> "init", writes |-> 0]
       /\ UNCHANGED fault

\* DelayLine_Write(&dl, sample)
DelayWrite ==
    \E sample \in DelaySamples :
       /\ unit.kind = "delay"
       /\ fault = "none"
       /\ unit.writes < DelayMaxWrites
       /\ unit' = [kind |-> "delay",
                   dl |-> DelayLine_Write(unit.dl, sample),
                   op |-> "write", sample |-> sample,
                   writes |-> unit.writes + 1]
       /\ UNCHANGED fault

\* DelayLine_Read(&dl, delayTimeSeconds)
DelayRead ==
    \E delayTimeSeconds \in DelayTimes : \E load \in DelayLoads :
       /\ unit.kind = "delay"
       /\ fault = "none"
       /\ \E got \in { DelayLine_Read(unit.dl, delayTimeSeconds,
                                      [int |-> 0, load |-> load]) } :
             /\ unit' = [kind |-> "delay", dl |-> unit.dl, op |-> "read",
                         delay |-> delayTimeSeconds, load |-> load,
                         value |-> got.value, writes |-> unit.writes]
             /\ fault' = got.fault

NextDelay ==
    \/ DelayInit /\ UNCHANGED << inst, heap, uaf, call, result, lastSet,
                                 count, used, test >>
    \/ DelayWrite /\ UNCHANGED << inst, heap, uaf, call, result, lastSet,
                                  count, used, test >>
    \/ DelayRead /\ UNCHANGED << inst, heap, uaf, call, result, lastSet,
                                 count, used, test >>

SpecDelay == Init /\ [][NextDelay]_vars

\* the slots either array holds a non-zero sample in
Filled(a, b) == DOMAIN a \cup DOMAIN b

\* C15: the write cursor is always in [0, capacity); a write stores its
\* sample in the slot at the cursor, changes no other slot, and moves the
\* cursor on by one modulo the capacity.
C15_WriteInPlace ==
    [][ ( unit.kind = "delay" /\ unit'.kind = "delay"
          /\ unit'.op = "write" /\ unit' # unit )
        => /\ unit.dl.writePosition \in 0..(unit.dl.bufferLength - 1)
           /\ Slot(unit'.dl.data, unit.dl.writePosition) = unit'.sample
           /\ \A i \in Filled(unit.dl.data, unit'.dl.data)
                        \ { unit.dl.writePosition } :
                 Slot(unit'.dl.data, i) = Slot(unit.dl.data, i)
           /\ unit'.dl.writePosition =
                 (unit.dl.writePosition + 1) % unit.dl.bufferLength
           /\ unit'.dl.writePosition \in 0..(unit'.dl.bufferLength - 1)
      ]_vars

\* a sample written in the last slot has brought the cursor back to 0
C15_Wrapped ==
    /\ unit.kind = "delay"
    /\ unit.op = "write"
    /\ unit.sample = 500000
    /\ unit.dl.writePosition = 0
    /\ Slot(unit.dl.data, unit.dl.bufferLength - 1) = 500000

\* the two indices of the read last made
LastIndex0 == ReadIndex0(ReadPos(unit.dl, unit.delay), 0)
LastIndex1 == ReadIndex1(LastIndex0, unit.dl.bufferLength)

\* C16: at every cursor position and for every delay asked for (below
\* one sample, above the capacity, or a fractional one that puts the
\* position just below 0 before the wrap) the delay used lies in
\* [1, capacity - 1] samples and both indices read lie in [0, capacity).
C16_ReadInBounds ==
    ( unit.kind = "delay" /\ unit.op = "read" ) =>
       /\ ClampDelaySamples(unit.dl, unit.delay) >= 1 * POS
       /\ ClampDelaySamples(unit.dl, unit.delay)
             <= (unit.dl.bufferLength - 1) * POS
       /\ InBuffer(unit.dl, LastIndex0)
       /\ InBuffer(unit.dl, LastIndex1)

\* the delay line with x in the slot at the write cursor
CursorSlot(dl, x) == [dl EXCEPT !.data = Store(dl.data, dl.writePosition, x)]

\* C17: the delay being at least one sample, the slot at the write
\* cursor, which the frame's write is about to overwrite, never
\* contributes to the value read: index0 is never the cursor, index1 is
\* the cursor only with a fraction of 0, and the value read is the same
\* whatever that slot holds.
C17_CursorSlotUnread ==
    ( unit.kind = "delay" /\ unit.op = "read" ) =>
       /\ LastIndex0 # unit.dl.writePosition
       /\ LastIndex1 = unit.dl.writePosition =>
             ReadFraction(ReadPos(unit.dl, unit.delay)) = 0
       /\ \A x \in DelaySamples :
             DelayLine_Read(CursorSlot(unit.dl, x), unit.delay,
                            [int |-> 0, load |-> unit.load]).value
                = unit.value

\* a read of less than one sample, which loads the slot at the cursor as
\* its second sample and returns the sample last written
C17_ShortestDelay ==
    /\ unit.kind = "delay"
    /\ unit.op = "read"
    /\ unit.delay = 10
    /\ LastIndex1 = unit.dl.writePosition
    /\ unit.value = 500000

(* ------------------------------------------------------------------ *)
(* SpecRace: v2_set_param on one thread, v2_process_block on another,   *)
(* on the mix smoother of one instance.  Neither takes a lock, so each  *)
(* load and store of a field of the smoother is a step of its own.      *)
(* ------------------------------------------------------------------ *)
RaceMaxSets == 2
RaceMaxFrames == 3

\* the targets v2_set_param gives the mix
RaceTargets == { 0, ONE }

\* SmoothedValue_Init(&inst->smoothedMix, 0.5f); the audio thread is
\* before a GetNext ("test"), the other thread outside SetTarget ("idle")
RaceInit ==
    /\ unit.kind = "none"
    /\ unit' = [kind |-> "race", sv |-> SmoothedValue_Init(500000),
                set |-> "idle", newTarget |-> 500000, cur |-> 0,
                get |-> "test", steps |-> 0,
                ret |-> 500000, prev |-> 500000,
                sets |-> 0, frames |-> 0]

\* SetTarget, first store: sv->targetValue = newTarget
RaceSetTarget ==
    \E newTarget \in RaceTargets :
       /\ unit.kind = "race"
       /\ unit.set = "idle"
       /\ unit.sets < RaceMaxSets
       /\ unit' = [unit EXCEPT !.sv.targetValue = newTarget,
                               !.newTarget = newTarget,
                               !.set = "load",
                               !.sets = @ + 1]

\* SetTarget: the load of sv->currentValue, the store of sv->step, the
\* store of sv->stepsRemaining
RaceSetStep ==
    /\ unit.kind = "race"
    /\ \/ /\ unit.set = "load"
          /\ unit' = [unit EXCEPT !.cur = unit.sv.currentValue,
                                  !.set = "step"]
       \/ /\ unit.set = "step"
          /\ unit' = [unit EXCEPT
                         !.sv.step = FDivInt(FSub(unit.newTarget, unit.cur),
                                             RAMP_SAMPLES),
                         !.set = "steps"]
       \/ /\ unit.set = "steps"
          /\ unit' = [unit EXCEPT !.sv.stepsRemaining = RAMP_SAMPLES,
                                  !.set = "idle"]

\* GetNext: if (sv->stepsRemaining > 0)
RaceGetTest ==
    /\ unit.kind = "race"
    /\ unit.get = "test"
    /\ unit.frames < RaceMaxFrames
    /\ unit' = [unit EXCEPT
                   !.get = IF unit.sv.stepsRemaining > 0 THEN "add"
                           ELSE "return",
                   !.frames = @ + 1]

\* GetNext: sv->currentValue += sv->step, then the load and the store of
\* sv->stepsRemaining--
RaceGetStep ==
    /\ unit.kind = "race"
    /\ \/ /\ unit.get = "add"
          /\ unit' = [unit EXCEPT
                         !.sv.currentValue = FAdd(unit.sv.currentValue,
                                                  unit.sv.step),
                         !.get = "dec"]
       \/ /\ unit.get = "dec"
          /\ unit' = [unit EXCEPT !.steps = unit.sv.stepsRemaining,
                                  !.get = "store"]
       \/ /\ unit.get = "store"
          /\ unit' = [unit EXCEPT !.sv.stepsRemaining = unit.steps - 1,
                                  !.steps = unit.steps - 1,
                                  !.get = "zero"]

\* GetNext: if (sv->stepsRemaining == 0) sv->currentValue =
\* sv->targetValue; the test reads the value just stored or loads the
\* field again
RaceGetZero ==
    /\ unit.kind = "race"
    /\ unit.get = "zero"
    /\ \E seen \in { unit.steps, unit.sv.stepsRemaining } :
          unit' = [unit EXCEPT
                      !.sv.currentValue = IF seen = 0
                                          THEN unit.sv.targetValue ELSE @,
                      !.get = "return"]

\* GetNext: return sv->currentValue
RaceGetReturn ==
    /\ unit.kind = "race"
    /\ unit.get = "return"
    /\ unit' = [unit EXCEPT !.prev = unit.ret,
                            !.ret = unit.sv.currentValue,
                            !.get = "test"]

\* all but the last two frames of a ramp, processed while no set_param is
\* under way
RaceBlock ==
    /\ unit.kind = "race"
    /\ unit.set = "idle"
    /\ unit.get = "test"
    /\ unit.sv.stepsRemaining = RAMP_SAMPLES
    /\ \E before \in { GetNextTimes(unit.sv, RAMP_SAMPLES - 3) } :
          unit' = [unit EXCEPT
                      !.sv = SmoothedValue_GetNext(before),
                      !.prev = before.currentValue,
                      !.ret = SmoothedValue_GetNext(before).currentValue]

NextRace ==
    \/ RaceInit /\ UNCHANGED << inst, heap, uaf, fault, call, result,
                                lastSet, count, used, test >>
    \/ RaceSetTarget /\ UNCHANGED << inst, heap, uaf, fault, call, result,
                                     lastSet, count, used, test >>
    \/ RaceSetStep /\ UNCHANGED << inst, heap, uaf, fault, call, result,
                                   lastSet, count, used, test >>
    \/ RaceGetTest /\ UNCHANGED << inst, heap, uaf, fault, call, result,
                                   lastSet, count, used, test >>
    \/ RaceGetStep /\ UNCHANGED << inst, heap, uaf, fault, call, result,
                                   lastSet, count, used, test >>
    \/ RaceGetZero /\ UNCHANGED << inst, heap, uaf, fault, call, result,
                                   lastSet, count, used, test >>
    \/ RaceGetReturn /\ UNCHANGED << inst, heap, uaf, fault, call, result,
                                     lastSet, count, used, test >>
    \/ RaceBlock /\ UNCHANGED << inst, heap, uaf, fault, call, result,
                                 lastSet, count, used, test >>

SpecRace == Init /\ [][NextRace]_vars

\* C19: when the stores of set_param to a smoother's fields interleave
\* with process_block's loads and stores of them, the value GetNext
\* returns still moves by at most one ramp step from one frame to the
\* next, and once both calls have returned stepsRemaining is not 0 with
\* currentValue different from targetValue: at worst the new value is
\* used late.
C19_RaceBenign ==
    unit.kind = "race" =>
       /\ Abs(unit.ret - unit.prev) <= MaxRampStep.mix + RampSlack
       /\ ( unit.set = "idle" /\ unit.get = "test"
            /\ unit.sv.stepsRemaining = 0 )
          => unit.sv.currentValue = unit.sv.targetValue

(* ------------------------------------------------------------------ *)
(* SpecGroup: one stream cut into blocks of any length                  *)
(* ------------------------------------------------------------------ *)
GroupMaxSets == 2
GroupMaxBlocks == 2
GroupMaxFrames == 3

\* a block of n frames at full scale, of opposite signs on the channels
Loud(n) == [i \in 1..(2 * n) |-> IF i % 2 = 1 THEN 30000 ELSE 0 - 30000]

NextGroup ==
    \/ /\ heap[1].record.state = "unallocated"
       /\ CreateInstance(NoDir, AllAllocated)
       /\ UNCHANGED << test, unit >>
    \/ \E set \in { << "mix", << "0" >> >>,
                    << "time", << "1", ".", "0" >> >> } :
          /\ count.set_param < GroupMaxSets
          /\ SetParam(1, set[1], set[2])
          /\ UNCHANGED << test, unit >>
    \/ \E n \in 1..GroupMaxFrames :
          /\ count.process_block < GroupMaxBlocks
          /\ ProcessBlock(1, Loud(n), n, Defined)
          /\ UNCHANGED << test, unit >>

SpecGroup == Init /\ [][NextGroup]_vars

\* the frames lo+1 .. hi of a block
FramesOf(audio, lo, hi) == SubSeq(audio, 2 * lo + 1, 2 * hi)

\* the block given in two calls, the first of k frames: [inst, out]
InTwoCalls(I, audio, k, n) ==
    LET first  == ProcessBlockOn(I, FramesOf(audio, 0, k), k, Defined)
        second == ProcessBlockOn(first.inst, FramesOf(audio, k, n), n - k,
                                 Defined)
    IN  [inst |-> second.inst, out |-> first.out \o second.out]

\* a smoother n calls of GetNext on
StepsLeft(sv, n) == Max(sv.stepsRemaining - n, 0)

\* C20: process_block does not depend on how the stream is cut into
\* blocks: n frames in one call leave the state and the output that the
\* same frames in two calls (k, then n - k) leave.  A call of n frames
\* takes n steps of every smoothed control and moves both write cursors on
\* by n modulo the capacity, so the two cursors are always equal, and it
\* changes no stored normalized parameter.
C20_GroupingFree ==
    [][ ( /\ call'.op = "process_block"
          /\ count'.process_block = count.process_block + 1
          /\ Ready(call'.instance) )
        => LET h == call'.instance
               n == call'.frames
           IN  /\ \A k \in 0..n :
                     /\ InTwoCalls(inst[h], call'.audio, k, n).inst = inst'[h]
                     /\ InTwoCalls(inst[h], call'.audio, k, n).out
                           = result'.audio
               /\ \A ch \in Channels :
                     inst'[h].delayLine[ch].writePosition =
                        (inst[h].delayLine[ch].writePosition + n)
                           % inst[h].delayLine[ch].bufferLength
               /\ inst'[h].delayLine[0].writePosition
                     = inst'[h].delayLine[1].writePosition
               /\ inst'[h].smoothedDelayTime.stepsRemaining
                     = StepsLeft(inst[h].smoothedDelayTime, n)
               /\ inst'[h].smoothedFeedback.stepsRemaining
                     = StepsLeft(inst[h].smoothedFeedback, n)
               /\ inst'[h].smoothedMix.stepsRemaining
                     = StepsLeft(inst[h].smoothedMix, n)
               /\ inst'[h].param_time = inst[h].param_time
               /\ inst'[h].param_feedback = inst[h].param_feedback
               /\ inst'[h].param_mix = inst[h].param_mix
               /\ inst'[h].param_tone = inst[h].param_tone
               /\ inst'[h].param_saturation = inst[h].param_saturation
      ]_vars

\* a block of three frames processed in the middle of the ramps of mix and
\* time, after a block of another length
C20_MidRampBlock ==
    /\ call.op = "process_block"
    /\ call.frames = 3
    /\ count.process_block = 2
    /\ inst[1].delayLine[0].writePosition = 5
    /\ inst[1].smoothedMix.stepsRemaining = RAMP_SAMPLES - 5
    /\ inst[1].smoothedDelayTime.stepsRemaining = RAMP_SAMPLES - 3
    /\ result.audio # Loud(3)

(* ------------------------------------------------------------------ *)
(* SpecPair: several live instances, called in any order                *)
(* ------------------------------------------------------------------ *)
PairMaxSets == 2
PairMaxBlocks == 2

NextPair ==
    \/ /\ CreateInstance(NoDir, AllAllocated)
       /\ UNCHANGED << test, unit >>
    \/ \E h \in Handles :
       \E set \in { << "mix", << "1", ".", "0" >> >>, << "time", << "0" >> >> } :
          /\ Live(h)
          /\ count.set_param < PairMaxSets
          /\ SetParam(h, set[1], set[2])
          /\ UNCHANGED << test, unit >>
    \/ \E h \in Handles :
          /\ Live(h)
          /\ count.process_block < PairMaxBlocks
          /\ ProcessBlock(h, Loud(1), 1, Defined)
          /\ UNCHANGED << test, unit >>
    \/ \E h \in Handles :
          /\ Live(h)
          /\ DestroyInstance(h, Defined)
          /\ UNCHANGED << test, unit >>

SpecPair == Init /\ [][NextPair]_vars

\* C12: instances are isolated: a set_param, process_block or
\* destroy_instance call on a live instance A leaves every field of a
\* different live instance B, and B's storage, as they were.
C12_Isolated ==
    [][ \A a \in Handles : \A b \in Handles \ {a} :
           ( /\ Live(a)
             /\ Live(b)
             /\ call'.op \in { "set_param", "process_block",
                               "destroy_instance" }
             /\ call'.instance = a )
           => /\ inst'[b] = inst[b]
              /\ heap'[b] = heap[b]
              /\ used'[b] = used[b]
              /\ lastSet'[b] = lastSet[b]
      ]_vars

\* two live instances, the first just set to a mix the second does not
\* have
C12_OneChanged ==
    /\ Live(1)
    /\ Live(2)
    /\ call.op = "set_param"
    /\ call.instance = 1
    /\ inst[1].param_mix = ONE
    /\ inst[2].param_mix = 500000
====
